---- MODULE Spec2Model ----
(***************************************************************************)
(* Terminal application engine of ERPNext-cli (package erp, tui*.go):      *)
(* the bubbletea Model, its Update function (one message applied at a      *)
(* time), the key handlers, the form helpers and the background commands   *)
(* whose terminating messages re-enter Update.                             *)
(*                                                                         *)
(* Conventions                                                             *)
(*  - a View is the name of the Go constant, as a string;                  *)
(*  - a handler is an operator from a Model record to a result record      *)
(*    [m, cmd, quit, panic]: the model returned, the commands returned     *)
(*    (a sequence of tasks), whether tea.Quit was returned and whether a   *)
(*    slice expression ran out of range;                                   *)
(*  - the cursor of a bubbles list (main menu, submenu, current list) is   *)
(*    moved by keys that change nothing else, so the highlighted entry is  *)
(*    an input `sel` of the key that uses it (0 = no entry highlighted);   *)
(*  - `tasks` are the commands dispatched and not yet returned, in         *)
(*    dispatch order; any of them may return next;                         *)
(*  - `dash` is the dashboard collection of loadDashboard while its        *)
(*    command runs: the summary record, its notice list, the mutex, the    *)
(*    wait group and the position of each section's goroutine              *)
(*    (SpecDashboard follows one collection step by step).                 *)
(***************************************************************************)
EXTENDS Integers, Sequences, FiniteSets, TLC

\* ---------------------------------------------------------------- bounds
\* backend requests that fail during one dashboard collection
MaxFailures == 1
\* commands in flight at once
MaxTasks == 1
\* rows a list fetch may return
MaxRows == 1
\* pending notification timers
MaxTimers == 1
\* characters typed into the fields of a form, all fields together
MaxTyped == 1
\* attribute rows of an item template
MaxAttrs == 1
\* lists (or the dashboard) of one category the operator opens in one session
MaxLists == 1
\* window-size messages the terminal sends while the dashboard is in use
MaxResizes == 2

RowNames == <<"R1", "R2", "R3", "R4">>

\* ----------------------------------------------------------------- views
Menus == {"ViewInventoryMenu", "ViewStockMenu", "ViewSalesMenu",
          "ViewPurchasingMenu", "ViewPaymentsMenu"}

InventoryLists == {"ViewAttributes", "ViewItems", "ViewTemplates", "ViewGroups", "ViewBrands"}
StockLists == {"ViewWarehouses", "ViewStock", "ViewSerials"}
SalesLists == {"ViewCustomers", "ViewQuotations", "ViewSalesOrders",
               "ViewSalesInvoices", "ViewDeliveryNotes"}
PurchasingLists == {"ViewSuppliers", "ViewPurchaseOrders", "ViewPurchaseInvoices",
                    "ViewPurchaseReceipts"}
PaymentsLists == {"ViewPayments"}

ListViews == InventoryLists \cup StockLists \cup SalesLists \cup PurchasingLists
             \cup PaymentsLists

DetailViews == {"ViewAttrDetail", "ViewItemDetail", "ViewStockDetail", "ViewSerialDetail",
                "ViewSupplierDetail", "ViewPODetail", "ViewPIDetail", "ViewCustomerDetail",
                "ViewQuotationDetail", "ViewSODetail", "ViewSIDetail", "ViewDNDetail",
                "ViewPRDetail", "ViewPaymentDetail"}

FormViews == {"ViewCreateSupplier", "ViewCreateSerial", "ViewStockReceive",
              "ViewStockTransfer", "ViewStockIssue", "ViewCreatePO",
              "ViewAddPOItem", "ViewCreatePI", "ViewCreatePR",
              "ViewCreateCustomer", "ViewCreateQuotation", "ViewAddQuotationItem",
              "ViewCreateSO", "ViewCreateSOFromQuotation", "ViewAddSOItem",
              "ViewCreateSalesInvoice", "ViewCreateDN", "ViewCreatePayment",
              "ViewCreateGroup", "ViewCreateBrand", "ViewCreateWarehouse",
              "ViewCreateVariant", "ViewCreateAttrText", "ViewCreateAttrNumeric",
              "ViewCreateAttrSelect", "ViewCreatePIFromPO"}

ConfirmViews == {"ViewConfirmDelete", "ViewConfirmAction"}

isListView(v) == v \in {"ViewPurchaseOrders", "ViewPurchaseInvoices", "ViewPurchaseReceipts",
                        "ViewSalesOrders", "ViewSalesInvoices", "ViewQuotations",
                        "ViewDeliveryNotes", "ViewPayments"}

MI(t, v) == [title |-> t, view |-> v]

MainMenuItems == << MI("Dashboard", "ViewDashboard"),
                    MI("Inventory", "ViewInventoryMenu"),
                    MI("Stock", "ViewStockMenu"),
                    MI("Sales", "ViewSalesMenu"),
                    MI("Purchasing", "ViewPurchasingMenu"),
                    MI("Payments", "ViewPaymentsMenu") >>

\* the entries createSubMenu is given for a category title ("" = never created)
SubMenuItems(title) ==
  CASE title = "Inventory" ->
         << MI("Items", "ViewItems"), MI("Templates", "ViewTemplates"),
            MI("Groups", "ViewGroups"), MI("Brands", "ViewBrands"),
            MI("Attributes", "ViewAttributes") >>
    [] title = "Stock" ->
         << MI("Warehouses", "ViewWarehouses"), MI("Stock Levels", "ViewStock"),
            MI("Serial Numbers", "ViewSerials") >>
    [] title = "Sales" ->
         << MI("Customers", "ViewCustomers"), MI("Quotations", "ViewQuotations"),
            MI("Sales Orders", "ViewSalesOrders"), MI("Sales Invoices", "ViewSalesInvoices"),
            MI("Delivery Notes", "ViewDeliveryNotes") >>
    [] title = "Purchasing" ->
         << MI("Suppliers", "ViewSuppliers"), MI("Purchase Orders", "ViewPurchaseOrders"),
            MI("Purchase Invoices", "ViewPurchaseInvoices"),
            MI("Purchase Receipts", "ViewPurchaseReceipts") >>
    [] title = "Payments" ->
         << MI("All Payments", "ViewPayments") >>
    [] OTHER -> << >>

\* handleEnter: the detail view a list view opens ("" = Enter opens nothing)
DetailOf(v) ==
  CASE v = "ViewAttributes" -> "ViewAttrDetail"
    [] v \in {"ViewItems", "ViewTemplates"} -> "ViewItemDetail"
    [] v = "ViewStock" -> "ViewStockDetail"
    [] v = "ViewSerials" -> "ViewSerialDetail"
    [] v = "ViewSuppliers" -> "ViewSupplierDetail"
    [] v = "ViewPurchaseOrders" -> "ViewPODetail"
    [] v = "ViewPurchaseInvoices" -> "ViewPIDetail"
    [] v = "ViewCustomers" -> "ViewCustomerDetail"
    [] v = "ViewQuotations" -> "ViewQuotationDetail"
    [] v = "ViewSalesOrders" -> "ViewSODetail"
    [] v = "ViewSalesInvoices" -> "ViewSIDetail"
    [] v = "ViewDeliveryNotes" -> "ViewDNDetail"
    [] v = "ViewPurchaseReceipts" -> "ViewPRDetail"
    [] v = "ViewPayments" -> "ViewPaymentDetail"
    [] OTHER -> ""

\* a faulty variant of the table below: Esc leaves a detail screen shown
DetailStays(v, prev) == v

\* esc: the list view a detail view goes back to
ListOfDetail(v, prev) ==
  CASE v = "ViewAttrDetail" -> "ViewAttributes"
    [] v = "ViewItemDetail" -> IF prev = "ViewTemplates" THEN "ViewTemplates" ELSE "ViewItems"
    [] v = "ViewStockDetail" -> "ViewStock"
    [] v = "ViewSerialDetail" -> "ViewSerials"
    [] v = "ViewSupplierDetail" -> "ViewSuppliers"
    [] v = "ViewPODetail" -> "ViewPurchaseOrders"
    [] v = "ViewPIDetail" -> "ViewPurchaseInvoices"
    [] v = "ViewCustomerDetail" -> "ViewCustomers"
    [] v = "ViewQuotationDetail" -> "ViewQuotations"
    [] v = "ViewSODetail" -> "ViewSalesOrders"
    [] v = "ViewSIDetail" -> "ViewSalesInvoices"
    [] v = "ViewDNDetail" -> "ViewDeliveryNotes"
    [] v = "ViewPRDetail" -> "ViewPurchaseReceipts"
    [] v = "ViewPaymentDetail" -> "ViewPayments"
    [] OTHER -> ""

\* esc: the category menu and label a list view goes back to
MenuOfList(v) ==
  CASE v \in InventoryLists -> MI("Inventory", "ViewInventoryMenu")
    [] v \in StockLists -> MI("Stock", "ViewStockMenu")
    [] v \in SalesLists -> MI("Sales", "ViewSalesMenu")
    [] v \in PurchasingLists -> MI("Purchasing", "ViewPurchasingMenu")
    [] v \in PaymentsLists -> MI("Payments", "ViewPaymentsMenu")
    [] OTHER -> MI("", "")

\* ----------------------------------------------------------------- model
NoData == [kind |-> "", key |-> "", docstatus |-> 0, hasVariants |-> FALSE,
           nattrs |-> 0, outstanding |-> FALSE]

\* the rows of the list widget; src (the view the rows were fetched for) and
\* late (they came from a fetch that a later fetch of the same list overtook)
\* are kept beside them for the properties only
NoList == [items |-> << >>, src |-> "", late |-> FALSE]

Task(kind, target, key) == [kind |-> kind, target |-> target, key |-> key, late |-> FALSE]

NoTask == Task("", "", "")

NewTUI == [view |-> "ViewMain",
           prevView |-> "ViewMain",
           breadcrumbs |-> << "Main" >>,
           loading |-> TRUE,
           selectedItem |-> "",
           itemData |-> NoData,
           currentList |-> NoList,
           subMenu |-> "",
           inputs |-> << >>,
           focusIndex |-> 0,
           messageType |-> "",
           showNotification |-> FALSE,
           confirmAction |-> "",
           dashboardData |-> FALSE,
           viewportReady |-> FALSE,
           viewportContent |-> FALSE]

Res(mm, cmd) == [m |-> mm, cmd |-> cmd, quit |-> FALSE, panic |-> FALSE]

\* s[1:n], a faulty variant of the slice below: the root is dropped
SliceDroppingRoot(s, n) == SubSeq(s, 2, n)

\* s[:n] of a slice whose capacity is its length
Slice(s, n) == SubSeq(s, 1, n)

\* SelectedItem().(ListItem) of the current list: the row name, "" when none
SelectedRow(mm, sel) ==
  IF sel \in 1..Len(mm.currentList.items) THEN mm.currentList.items[sel] ELSE ""


\* ----------------------------------------------------------------- forms
Val(name) == IF name = "" THEN << >> ELSE << name >>

\* textinput.New() for n fields, the first one focused; SetValue on the first
NewInputs(n, prefill) ==
  [i \in 1..n |-> [value |-> IF i = 1 THEN prefill ELSE << >>, focused |-> (i = 1)]]

initForm(mm, n, fi, prefill) ==
  [mm EXCEPT !.inputs = NewInputs(n, prefill), !.focusIndex = fi]

initStockReceiveForm(mm) == initForm(mm, 4, 1, Val(mm.selectedItem))
initStockTransferForm(mm) == initForm(mm, 4, 1, Val(mm.selectedItem))
initStockIssueForm(mm) == initForm(mm, 3, 1, Val(mm.selectedItem))
initCreateSerialForm(mm) == initForm(mm, 3, 0, << >>)
initCreateSupplierForm(mm) == initForm(mm, 3, 0, << >>)
initCreatePOForm(mm) == initForm(mm, 1, 0, << >>)
initAddPOItemForm(mm) == initForm(mm, 3, 0, << >>)
initCreatePIForm(mm) == initForm(mm, 1, 0, << >>)
initCreateCustomerForm(mm) == initForm(mm, 3, 0, << >>)
initCreateQuotationForm(mm) == initForm(mm, 1, 0, << >>)
initAddQuotationItemForm(mm) == initForm(mm, 3, 0, << >>)
initCreateSOForm(mm) == initForm(mm, 1, 0, << >>)
initCreateSOFromQuotationForm(mm) == initForm(mm, 1, 0, << >>)
initAddSOItemForm(mm) == initForm(mm, 3, 0, << >>)
initCreateSIForm(mm) == initForm(mm, 1, 0, << >>)
initCreateDNForm(mm) == initForm(mm, 1, 0, << >>)
initCreatePaymentForm(mm, invoiceName) == initForm(mm, 2, 0, Val(invoiceName))
initCreateGroupForm(mm) == initForm(mm, 2, 0, << >>)
initCreateBrandForm(mm) == initForm(mm, 2, 0, << >>)
initCreateWarehouseForm(mm) == initForm(mm, 2, 0, << >>)
initCreateAttrForm(mm) == initForm(mm, 2, 0, << >>)
initCreateVariantForm(mm) ==
  initForm(mm, IF mm.itemData.nattrs = 0 THEN 1 ELSE mm.itemData.nattrs, 0, << >>)

\* inputs[0].SetValue(v) after an init
SetFirstValue(mm, v) == [mm EXCEPT !.inputs[1].value = Val(v)]

updateFocus(mm) ==
  [mm EXCEPT !.inputs = [i \in DOMAIN mm.inputs |->
                           [mm.inputs[i] EXCEPT !.focused = (i = mm.focusIndex + 1)]]]

\* the view submitCurrentForm records as prevView for each form
FormParent(v) ==
  CASE v = "ViewCreateSupplier" -> "ViewSuppliers"
    [] v = "ViewCreateSerial" -> "ViewSerials"
    [] v \in {"ViewStockReceive", "ViewStockTransfer", "ViewStockIssue"} -> "ViewStock"
    [] v = "ViewCreatePO" -> "ViewPurchaseOrders"
    [] v = "ViewAddPOItem" -> "ViewPODetail"
    [] v = "ViewCreatePI" -> "ViewPurchaseInvoices"
    [] v = "ViewCreateCustomer" -> "ViewCustomers"
    [] v = "ViewCreateQuotation" -> "ViewQuotations"
    [] v = "ViewAddQuotationItem" -> "ViewQuotationDetail"
    [] v = "ViewCreateSO" -> "ViewSalesOrders"
    [] v = "ViewCreateSOFromQuotation" -> "ViewSalesOrders"
    [] v = "ViewAddSOItem" -> "ViewSODetail"
    [] v = "ViewCreateSalesInvoice" -> "ViewSalesInvoices"
    [] v = "ViewCreateDN" -> "ViewDeliveryNotes"
    [] v = "ViewCreatePR" -> "ViewPurchaseReceipts"
    [] v = "ViewCreatePayment" -> "ViewPayments"
    [] v = "ViewCreateGroup" -> "ViewGroups"
    [] v = "ViewCreateBrand" -> "ViewBrands"
    [] v = "ViewCreateWarehouse" -> "ViewWarehouses"
    [] v = "ViewCreateVariant" -> "ViewTemplates"
    [] v \in {"ViewCreateAttrText", "ViewCreateAttrNumeric", "ViewCreateAttrSelect"} ->
         "ViewAttributes"
    [] v = "ViewCreatePIFromPO" -> "ViewPurchaseInvoices"
    [] OTHER -> ""

\* the submit command of a form: valid when its first (required) field is filled
submitCurrentForm(mm) ==
  LET m1 == [mm EXCEPT !.loading = TRUE] IN
  IF FormParent(mm.view) # ""
    THEN Res([m1 EXCEPT !.prevView = FormParent(mm.view)],
             << Task("form", mm.view,
                     IF Len(mm.inputs) > 0 /\ mm.inputs[1].value # << >>
                       THEN "valid" ELSE "invalid") >>)
    ELSE Res(m1, << >>)

\* textinput.Update of the field at focusIndex: a blurred field ignores keys
TypeInto(mm, key) ==
  IF mm.focusIndex < Len(mm.inputs) /\ mm.focusIndex >= 0
     /\ mm.inputs[mm.focusIndex + 1].focused
    THEN [mm EXCEPT !.inputs[mm.focusIndex + 1].value = Append(@, key)]
    ELSE mm

Printable == {"d", "y", "n", "t", "i", "a", "s", "x", "p", "o", "v", "z"}

\* a faulty variant of the step below: the wrap comes one field too late
focusNextLate(fi, n) == IF fi + 1 > n THEN 0 ELSE fi + 1

\* m.focusIndex++ and its wrap, over n fields
focusNext(fi, n) == IF fi + 1 >= n THEN 0 ELSE fi + 1

\* a faulty variant of the step below: it stops at the first field
focusPrevStops(fi, n) == IF fi - 1 < 0 THEN 0 ELSE fi - 1

\* m.focusIndex-- and its wrap, over n fields
focusPrev(fi, n) == IF fi - 1 < 0 THEN n - 1 ELSE fi - 1

updateFormInputs(mm, key) ==
  CASE key \in {"tab", "down"} ->
         Res(updateFocus([mm EXCEPT !.focusIndex = focusNext(@, Len(mm.inputs))]), << >>)
    [] key \in {"shift+tab", "up"} ->
         Res(updateFocus([mm EXCEPT !.focusIndex = focusPrev(@, Len(mm.inputs))]), << >>)
    [] key = "enter" -> submitCurrentForm(mm)
    [] key = "esc" -> Res([mm EXCEPT !.view = mm.prevView], << >>)
    [] key \in Printable -> Res(TypeInto(mm, key), << >>)
    [] OTHER -> Res(mm, << >>)

\* ------------------------------------------------------ per-module keys
\* every handle*Keys returns a nil command on every path: only the model
\* it leaves behind (pointer receiver) reaches the caller
OpenConfirmAction(mm, action) ==
  [mm EXCEPT !.confirmAction = action, !.prevView = mm.view, !.view = "ViewConfirmAction"]

OpenConfirmDelete(mm, row) ==
  [mm EXCEPT !.selectedItem = row, !.prevView = mm.view, !.view = "ViewConfirmDelete"]

HasData(mm) == mm.itemData.kind # ""
Draft(mm) == HasData(mm) /\ mm.itemData.docstatus = 0
Submitted(mm) == HasData(mm) /\ mm.itemData.docstatus = 1

handleInventoryKeys(mm, key) ==
  CASE mm.view = "ViewAttributes" /\ key = "n" ->
         [initCreateAttrForm(mm) EXCEPT !.prevView = mm.view, !.view = "ViewCreateAttrText"]
    [] mm.view = "ViewGroups" /\ key = "n" ->
         [initCreateGroupForm(mm) EXCEPT !.prevView = mm.view, !.view = "ViewCreateGroup"]
    [] mm.view = "ViewBrands" /\ key = "n" ->
         [initCreateBrandForm(mm) EXCEPT !.prevView = mm.view, !.view = "ViewCreateBrand"]
    [] mm.view = "ViewWarehouses" /\ key = "n" ->
         [initCreateWarehouseForm(mm) EXCEPT !.prevView = mm.view,
                                             !.view = "ViewCreateWarehouse"]
    [] OTHER -> mm

handlePurchasingKeys(mm, key, sel) ==
  CASE mm.view = "ViewSuppliers" /\ key = "n" ->
         [initCreateSupplierForm(mm) EXCEPT !.view = "ViewCreateSupplier"]
    [] mm.view = "ViewSuppliers" /\ key = "d" /\ SelectedRow(mm, sel) # "" ->
         OpenConfirmDelete(mm, SelectedRow(mm, sel))
    [] mm.view = "ViewPurchaseOrders" /\ key = "n" ->
         [initCreatePOForm(mm) EXCEPT !.view = "ViewCreatePO"]
    [] mm.view = "ViewPODetail" /\ key = "a" /\ Draft(mm) ->
         [initAddPOItemForm(mm) EXCEPT !.view = "ViewAddPOItem"]
    [] mm.view = "ViewPODetail" /\ key = "s" /\ Draft(mm) ->
         OpenConfirmAction(mm, "submit_po")
    [] mm.view = "ViewPODetail" /\ key = "x" /\ Submitted(mm) ->
         OpenConfirmAction(mm, "cancel_po")
    [] mm.view = "ViewPurchaseInvoices" /\ key = "n" ->
         [initCreatePIForm(mm) EXCEPT !.view = "ViewCreatePI"]
    [] mm.view = "ViewPIDetail" /\ key = "s" /\ Draft(mm) ->
         OpenConfirmAction(mm, "submit_pi")
    [] mm.view = "ViewPIDetail" /\ key = "x" /\ Submitted(mm) ->
         OpenConfirmAction(mm, "cancel_pi")
    [] OTHER -> mm

handleStockKeys(mm, key, sel) ==
  LET row == SelectedRow(mm, sel) IN
  CASE mm.view = "ViewStock" /\ key = "r" /\ row # "" ->
         [initStockReceiveForm([mm EXCEPT !.selectedItem = row])
            EXCEPT !.view = "ViewStockReceive"]
    [] mm.view = "ViewStock" /\ key = "t" /\ row # "" ->
         [initStockTransferForm([mm EXCEPT !.selectedItem = row])
            EXCEPT !.view = "ViewStockTransfer"]
    [] mm.view = "ViewStock" /\ key = "i" /\ row # "" ->
         [initStockIssueForm([mm EXCEPT !.selectedItem = row])
            EXCEPT !.view = "ViewStockIssue"]
    [] mm.view = "ViewStockDetail" /\ key = "r" ->
         [initStockReceiveForm(mm) EXCEPT !.view = "ViewStockReceive"]
    [] mm.view = "ViewStockDetail" /\ key = "t" ->
         [initStockTransferForm(mm) EXCEPT !.view = "ViewStockTransfer"]
    [] mm.view = "ViewStockDetail" /\ key = "i" ->
         [initStockIssueForm(mm) EXCEPT !.view = "ViewStockIssue"]
    [] mm.view = "ViewSerials" /\ key = "n" ->
         [initCreateSerialForm(mm) EXCEPT !.view = "ViewCreateSerial"]
    [] mm.view = "ViewSerials" /\ key = "d" /\ row # "" ->
         OpenConfirmDelete(mm, row)
    [] OTHER -> mm

handleSalesKeys(mm, key, sel) ==
  CASE mm.view = "ViewCustomers" /\ key = "n" ->
         [initCreateCustomerForm(mm) EXCEPT !.view = "ViewCreateCustomer"]
    [] mm.view = "ViewCustomers" /\ key = "d" /\ SelectedRow(mm, sel) # "" ->
         OpenConfirmDelete(mm, SelectedRow(mm, sel))
    [] mm.view = "ViewQuotations" /\ key = "n" ->
         [initCreateQuotationForm(mm) EXCEPT !.view = "ViewCreateQuotation"]
    [] mm.view = "ViewQuotationDetail" /\ key = "a" /\ Draft(mm) ->
         [initAddQuotationItemForm(mm) EXCEPT !.view = "ViewAddQuotationItem"]
    [] mm.view = "ViewQuotationDetail" /\ key = "s" /\ Draft(mm) ->
         OpenConfirmAction(mm, "submit_quotation")
    [] mm.view = "ViewQuotationDetail" /\ key = "x" /\ Submitted(mm) ->
         OpenConfirmAction(mm, "cancel_quotation")
    [] mm.view = "ViewQuotationDetail" /\ key = "o" /\ Submitted(mm) ->
         [SetFirstValue(initCreateSOFromQuotationForm(mm), mm.selectedItem)
            EXCEPT !.view = "ViewCreateSOFromQuotation"]
    [] mm.view = "ViewSalesOrders" /\ key = "n" ->
         [initCreateSOForm(mm) EXCEPT !.view = "ViewCreateSO"]
    [] mm.view = "ViewSalesOrders" /\ key = "q" ->
         [initCreateSOFromQuotationForm(mm) EXCEPT !.view = "ViewCreateSOFromQuotation"]
    [] mm.view = "ViewSODetail" /\ key = "a" /\ Draft(mm) ->
         [initAddSOItemForm(mm) EXCEPT !.view = "ViewAddSOItem"]
    [] mm.view = "ViewSODetail" /\ key = "s" /\ Draft(mm) ->
         OpenConfirmAction(mm, "submit_so")
    [] mm.view = "ViewSODetail" /\ key = "x" /\ Submitted(mm) ->
         OpenConfirmAction(mm, "cancel_so")
    [] mm.view = "ViewSODetail" /\ key = "i" /\ Submitted(mm) ->
         [SetFirstValue(initCreateSIForm(mm), mm.selectedItem)
            EXCEPT !.view = "ViewCreateSalesInvoice"]
    [] mm.view = "ViewSODetail" /\ key = "r" /\ Submitted(mm) ->
         [SetFirstValue(initCreateDNForm(mm), mm.selectedItem)
            EXCEPT !.view = "ViewCreateDN"]
    [] mm.view = "ViewDeliveryNotes" /\ key = "n" ->
         [initCreateDNForm(mm) EXCEPT !.view = "ViewCreateDN"]
    [] mm.view = "ViewDNDetail" /\ key = "s" /\ Draft(mm) ->
         OpenConfirmAction(mm, "submit_dn")
    [] mm.view = "ViewDNDetail" /\ key = "x" /\ Submitted(mm) ->
         OpenConfirmAction(mm, "cancel_dn")
    [] mm.view = "ViewSalesInvoices" /\ key = "n" ->
         [initCreateSIForm(mm) EXCEPT !.view = "ViewCreateSalesInvoice"]
    [] mm.view = "ViewSIDetail" /\ key = "s" /\ Draft(mm) ->
         OpenConfirmAction(mm, "submit_si")
    [] mm.view = "ViewSIDetail" /\ key = "x" /\ Submitted(mm) ->
         OpenConfirmAction(mm, "cancel_si")
    [] mm.view = "ViewSIDetail" /\ key = "p" /\ Submitted(mm) /\ mm.itemData.outstanding ->
         [initCreatePaymentForm(mm, mm.selectedItem)
            EXCEPT !.prevView = mm.view, !.view = "ViewCreatePayment"]
    [] mm.view = "ViewPaymentDetail" /\ key = "s" /\ Draft(mm) ->
         OpenConfirmAction(mm, "submit_payment")
    [] mm.view = "ViewPaymentDetail" /\ key = "x" /\ Submitted(mm) ->
         OpenConfirmAction(mm, "cancel_payment")
    [] OTHER -> mm


\* -------------------------------------------------------------- commands
LoadList(v) == Task("list", v, "")

\* loadStockDetail answers with stockDataMsg, the other detail loaders with
\* itemDetailMsg
LoadDetail(dv, name) ==
  IF dv = "ViewStockDetail" THEN Task("stock", dv, name) ELSE Task("detail", dv, name)

loadDashboard == Task("dashboard", "ViewDashboard", "")

detectConnection == Task("connect", "ViewMain", "")

DocActions == {"submit_po", "cancel_po", "submit_pi", "cancel_pi",
               "submit_quotation", "cancel_quotation", "submit_so", "cancel_so",
               "submit_si", "cancel_si", "submit_dn", "cancel_dn",
               "submit_pr", "cancel_pr", "submit_payment", "cancel_payment"}

DeleteViews == {"ViewAttributes", "ViewItems", "ViewTemplates", "ViewGroups", "ViewBrands",
                "ViewSuppliers", "ViewSerials", "ViewCustomers"}

\* kinds of task that write to the backend
WriteKinds == DocActions \cup {"delete", "form"}

refreshCurrentView(mm) ==
  LET m1 == [mm EXCEPT !.loading = TRUE] IN
  CASE mm.view \in ListViews -> Res(m1, << LoadList(mm.view) >>)
    [] mm.view = "ViewDashboard" -> Res(m1, << loadDashboard >>)
    [] OTHER -> Res(m1, << >>)

\* the pointer-receiver method: the model it leaves behind and its command
handleConfirmAction(mm, confirmed) ==
  IF ~confirmed
    THEN Res([mm EXCEPT !.view = mm.prevView], << >>)
    ELSE LET m1 == [mm EXCEPT !.loading = TRUE, !.view = mm.prevView] IN
         IF mm.confirmAction \in DocActions
           THEN Res(m1, << Task(mm.confirmAction, mm.prevView, mm.selectedItem) >>)
           ELSE Res(m1, << >>)

handleDeleteForView(mm) ==
  IF mm.prevView \in DeleteViews
    THEN << Task("delete", mm.prevView, mm.selectedItem) >>
    ELSE << >>

handleEnter(mm, sel) ==
  CASE mm.view = "ViewMain" /\ sel \in 1..Len(MainMenuItems) ->
         LET item == MainMenuItems[sel]
             m1 == [mm EXCEPT !.view = item.view,
                              !.breadcrumbs = << "Main", item.title >>]
         IN  IF item.view = "ViewDashboard"
               THEN Res([m1 EXCEPT !.loading = TRUE], << loadDashboard >>)
               ELSE Res([m1 EXCEPT !.subMenu = item.title], << >>)
    [] mm.view \in Menus /\ sel \in 1..Len(SubMenuItems(mm.subMenu)) ->
         LET item == SubMenuItems(mm.subMenu)[sel] IN
         IF Len(mm.breadcrumbs) < 2
           THEN [Res(mm, << >>) EXCEPT !.panic = TRUE]
           ELSE Res([mm EXCEPT !.view = item.view,
                               !.loading = TRUE,
                               !.breadcrumbs = Append(Slice(mm.breadcrumbs, 2),
                                                      item.title)],
                    << LoadList(item.view) >>)
    [] mm.view \in ListViews /\ DetailOf(mm.view) # "" /\ SelectedRow(mm, sel) # "" ->
         LET name == SelectedRow(mm, sel)
             m1 == [mm EXCEPT !.selectedItem = name,
                              !.prevView = IF mm.view \in {"ViewItems", "ViewTemplates"}
                                             THEN mm.view ELSE @,
                              !.view = DetailOf(mm.view),
                              !.loading = TRUE,
                              !.breadcrumbs = Append(mm.breadcrumbs, name)]
         IN  Res(m1, << LoadDetail(DetailOf(mm.view), name) >>)
    [] OTHER -> Res(mm, << >>)

\* a faulty variant of the case below: Esc always leads to the main menu
handleEscToRoot(mm) ==
  Res([mm EXCEPT !.view = "ViewMain", !.breadcrumbs = << "Main" >>], << >>)

\* case "esc" of Update
handleEsc(mm) ==
  CASE mm.view = "ViewMain" -> Res(mm, << >>)
    [] mm.view \in Menus ->
         Res([mm EXCEPT !.view = "ViewMain", !.breadcrumbs = << "Main" >>], << >>)
    [] mm.view \in DetailViews ->
         Res([mm EXCEPT !.view = ListOfDetail(mm.view, mm.prevView),
                        !.breadcrumbs = IF Len(@) > 2 THEN Slice(@, 2) ELSE @], << >>)
    [] mm.view \in FormViews ->
         Res([mm EXCEPT !.view = IF mm.prevView # "ViewMain" THEN mm.prevView
                                                              ELSE "ViewMain"], << >>)
    [] mm.view \in ConfirmViews ->
         Res([mm EXCEPT !.view = mm.prevView], << >>)
    [] mm.view \in ListViews ->
         Res([mm EXCEPT !.view = MenuOfList(mm.view).view,
                        !.breadcrumbs = << "Main", MenuOfList(mm.view).title >>], << >>)
    [] OTHER ->
         Res([mm EXCEPT !.view = "ViewMain", !.breadcrumbs = << "Main" >>], << >>)

\* the switch on m.view that ends Update: forms get the message, the lists
\* and menus only move their cursor
Forward(mm, key) ==
  IF mm.view \in FormViews THEN updateFormInputs(mm, key) ELSE Res(mm, << >>)

Keys == {"ctrl+c", "q", "esc", "enter", "d", "y", "n", "r", "t", "i", "a", "s", "x",
         "p", "o", "v", "z", "tab", "shift+tab", "up", "down"}

\* a faulty variant of the case below: q ends the program on every screen
handleQQuits(mm, sel) == [Res(mm, << >>) EXCEPT !.quit = TRUE]

\* case "q" of Update
handleQ(mm, sel) ==
  IF mm.view = "ViewMain"
    THEN [Res(mm, << >>) EXCEPT !.quit = TRUE]
    ELSE Res([handleSalesKeys(mm, "q", sel) EXCEPT !.view = "ViewMain"], << >>)

\* return m, m.handleConfirmAction(..): the language leaves open whether the
\* operand m is read before or after the call that changes it, so a build
\* returns either the model as it was or the model the method left behind
EvalOrders == {"call-first", "operand-first"}

ReturnWith(mm, r, ord) == IF ord = "operand-first" THEN [r EXCEPT !.m = mm] ELSE r

\* case tea.KeyMsg of Update
UpdateKey(mm0, key, sel, ord) ==
  LET mm == [mm0 EXCEPT !.messageType = ""] IN
  CASE key = "ctrl+c" -> [Res(mm, << >>) EXCEPT !.quit = TRUE]
    [] key = "q" -> handleQ(mm, sel)
    [] key = "esc" -> handleEsc(mm)
    [] key = "enter" -> handleEnter(mm, sel)
    [] key = "d" ->
         IF mm.view \in DeleteViews /\ SelectedRow(mm, sel) # ""
           THEN Res(OpenConfirmDelete(mm, SelectedRow(mm, sel)), << >>)
           ELSE IF mm.view \in {"ViewSupplierDetail", "ViewSerialDetail",
                                "ViewCustomerDetail"}
                  THEN Res([mm EXCEPT !.prevView = mm.view,
                                      !.view = "ViewConfirmDelete"], << >>)
                  ELSE Forward(mm, key)
    [] key = "y" ->
         IF mm.view = "ViewConfirmDelete"
           THEN Res([mm EXCEPT !.view = mm.prevView], handleDeleteForView(mm))
           ELSE IF mm.view = "ViewConfirmAction"
                  THEN ReturnWith(mm, handleConfirmAction(mm, TRUE), ord)
                  ELSE Forward(mm, key)
    [] key = "n" ->
         IF mm.view = "ViewConfirmDelete"
           THEN Res([mm EXCEPT !.view = mm.prevView], << >>)
           ELSE IF mm.view = "ViewConfirmAction"
                  THEN ReturnWith(mm, handleConfirmAction(mm, FALSE), ord)
                  ELSE Forward(handleSalesKeys(
                                 handleStockKeys(
                                   handlePurchasingKeys(
                                     handleInventoryKeys(mm, "n"), "n", sel), "n", sel),
                                 "n", sel), key)
    [] key = "r" ->
         refreshCurrentView(IF mm.view \in {"ViewStock", "ViewStockDetail"}
                              THEN handleStockKeys(mm, "r", sel) ELSE mm)
    [] key = "t" -> Forward(handleStockKeys(mm, "t", sel), key)
    [] key = "i" ->
         Forward(handleSalesKeys(
                   handlePurchasingKeys(handleStockKeys(mm, "i", sel), "i", sel),
                   "i", sel), key)
    [] key \in {"a", "s", "x", "p"} ->
         Forward(handleSalesKeys(handlePurchasingKeys(mm, key, sel), key, sel), key)
    [] key = "o" ->
         LET m1 == handleSalesKeys(mm, "o", sel) IN
         IF isListView(m1.view) THEN refreshCurrentView(m1) ELSE Forward(m1, key)
    [] key = "v" ->
         IF mm.view = "ViewItemDetail" /\ HasData(mm) /\ mm.itemData.hasVariants
           THEN Res([initCreateVariantForm(mm) EXCEPT !.prevView = mm.view,
                                                      !.view = "ViewCreateVariant"], << >>)
           ELSE Forward(mm, key)
    [] OTHER -> Forward(mm, key)

\* ------------------------------------------------------------- messages
Msg(type, items, data, ok) == [type |-> type, items |-> items, data |-> data, ok |-> ok]

Rows(k) == SubSeq(RowNames, 1, k)

\* documents with a draft/submitted/cancelled workflow
DocDetails == {"ViewPODetail", "ViewPIDetail", "ViewQuotationDetail", "ViewSODetail",
               "ViewSIDetail", "ViewDNDetail", "ViewPRDetail", "ViewPaymentDetail"}

\* the documents the backend may answer a detail fetch with: master data is
\* never submitted, only an item template carries attribute rows, only a
\* submitted sales invoice an outstanding amount
Details(t) ==
  { [kind |-> t.target, key |-> t.key, docstatus |-> ds, hasVariants |-> hv,
     nattrs |-> na, outstanding |-> out] :
      ds \in IF t.target \in DocDetails THEN {0, 1} ELSE {0},
      hv \in IF t.target = "ViewItemDetail" THEN BOOLEAN ELSE {FALSE},
      na \in IF t.target = "ViewItemDetail" THEN {0, MaxAttrs} ELSE {0},
      out \in IF t.target = "ViewSIDetail" THEN BOOLEAN ELSE {FALSE} }
  \ { d \in [kind : {t.target}, key : {t.key}, docstatus : {0, 1}, hasVariants : BOOLEAN,
             nattrs : {0, MaxAttrs}, outstanding : BOOLEAN] :
        \/ ~d.hasVariants /\ d.nattrs # 0
        \/ d.docstatus = 0 /\ d.outstanding }

\* the terminating messages a command may return
Results(t) ==
  CASE t.kind = "connect" -> { Msg("connectedMsg", << >>, NoData, TRUE) }
    [] t.kind = "list" ->
         { Msg("errorMsg", << >>, NoData, FALSE) }
         \cup { Msg("dataLoadedMsg", Rows(k), NoData, TRUE) : k \in 0..MaxRows }
    [] t.kind = "detail" ->
         { Msg("errorMsg", << >>, NoData, FALSE) }
         \cup { Msg("itemDetailMsg", << >>, d, TRUE) : d \in Details(t) }
    [] t.kind = "stock" ->
         { Msg("errorMsg", << >>, NoData, FALSE), Msg("stockDataMsg", << >>, NoData, TRUE) }
    [] t.kind = "delete" ->
         { Msg("errorMsg", << >>, NoData, FALSE), Msg("actionDoneMsg", << >>, NoData, TRUE) }
    [] t.kind \in DocActions ->
         { Msg("formSubmittedMsg", << >>, NoData, ok) : ok \in BOOLEAN }
    [] t.kind = "form" ->
         { Msg("formSubmittedMsg", << >>, NoData, ok) :
             ok \in IF t.key = "valid" THEN BOOLEAN ELSE {FALSE} }
    [] t.kind = "dashboard" -> { Msg("dashboardLoadedMsg", << >>, NoData, TRUE) }
    [] OTHER -> { }

\* tea.Tick(3 * time.Second, ...): the command that ends with clearNotificationMsg
Tick == Task("tick", "", "")

NotTick(t) == t.kind # "tick"
IsTick(t) == t.kind = "tick"

\* a faulty variant of the case below: rows that arrive while nothing is
\* loading are dropped
dataLoadedWhileLoading(mm, msg, t) ==
  IF mm.loading
    THEN Res([mm EXCEPT !.loading = FALSE,
                        !.currentList = [items |-> msg.items, src |-> t.target,
                                         late |-> t.late]], << >>)
    ELSE Res(mm, << >>)

\* case dataLoadedMsg; t is the command the message ends
dataLoadedMsg(mm, msg, t) ==
  Res([mm EXCEPT !.loading = FALSE,
                 !.currentList = [items |-> msg.items, src |-> t.target,
                                  late |-> t.late]], << >>)

\* case actionDoneMsg
actionDoneMsg(mm) == refreshCurrentView([mm EXCEPT !.messageType = "success"])

\* case formSubmittedMsg
formSubmittedMsg(mm, msg) ==
  IF msg.ok
    THEN LET r == refreshCurrentView([mm EXCEPT !.loading = FALSE,
                                                !.showNotification = TRUE])
         IN  [r EXCEPT !.cmd = r.cmd \o << Tick >>]
    ELSE Res([mm EXCEPT !.loading = FALSE, !.messageType = "error"], << >>)

\* a faulty variant of the case below: the timer also clears the message
clearNotificationAndMessage(mm) ==
  Res([mm EXCEPT !.showNotification = FALSE, !.messageType = ""], << >>)

\* case clearNotificationMsg
clearNotificationMsg(mm) == Res([mm EXCEPT !.showNotification = FALSE], << >>)

\* case tea.WindowSizeMsg: width, height and the sizes of the list widgets are
\* set (they are not kept here) and the dashboard's viewport is made anew, so
\* it shows nothing until content is set again
windowSizeMsg(mm) ==
  Res([mm EXCEPT !.viewportReady = TRUE, !.viewportContent = FALSE], << >>)

\* the non-key cases of Update; t is the command the message ends
UpdateMsg(mm, msg, t) ==
  CASE msg.type = "connectedMsg" -> Res([mm EXCEPT !.loading = FALSE], << >>)
    [] msg.type = "errorMsg" ->
         Res([mm EXCEPT !.loading = FALSE, !.messageType = "error"], << >>)
    [] msg.type = "dataLoadedMsg" -> dataLoadedMsg(mm, msg, t)
    [] msg.type = "itemDetailMsg" ->
         Res([mm EXCEPT !.loading = FALSE, !.itemData = msg.data], << >>)
    [] msg.type = "actionDoneMsg" -> actionDoneMsg(mm)
    [] msg.type = "dashboardLoadedMsg" ->
         Res([mm EXCEPT !.loading = FALSE, !.dashboardData = TRUE,
                        !.viewportContent = IF mm.viewportReady THEN TRUE ELSE @], << >>)
    [] msg.type = "stockDataMsg" -> Res([mm EXCEPT !.loading = FALSE], << >>)
    [] msg.type = "formSubmittedMsg" -> formSubmittedMsg(mm, msg)
    [] msg.type = "clearNotificationMsg" -> clearNotificationMsg(mm)
    [] msg.type = "WindowSizeMsg" -> windowSizeMsg(mm)
    [] OTHER -> Res(mm, << >>)


\* ------------------------------------------------- dashboard collection
\* one backend request of a section task: the summary fields written under
\* the mutex when it succeeds, the notice appended under the mutex when it
\* fails ("" when the error is dropped)
Req(name, fields, notice) == [name |-> name, fields |-> fields, notice |-> notice]

fetchStockMetrics ==
  << Req("Item", {"TotalItems"}, "Failed to fetch items"),
     Req("Bin", {"TotalStockValue", "ZeroStockItems"}, "Failed to fetch stock data") >>

fetchPurchaseMetrics ==
  << Req("DraftPO", {"DraftPOs", "DraftPOValue"}, ""),
     Req("PendingPO", {"PendingPOs", "PendingPOValue"}, ""),
     Req("SubmittedPO", {"TopSuppliers"}, ""),
     Req("UnpaidPI", {"UnpaidInvoices", "UnpaidValue"}, "") >>

fetchSystemMetrics ==
  << Req("Supplier", {"TotalSuppliers"}, ""),
     Req("Warehouse", {"TotalWarehouses"}, ""),
     Req("ItemGroup", {"TotalGroups"}, "") >>

\* the two section tasks whose code is not in the repository's files: one
\* fetch each, its fields written under the mutex, a notice on failure
fetchSalesMetrics ==
  << Req("Sales", {"OpenQuotations", "PendingSOs", "CompletedSOs", "CompletedSOValue",
                   "UnpaidSIs", "UnpaidSIValue"}, "Failed to fetch sales data") >>

fetchPaymentMetrics ==
  << Req("Payments", {"TotalReceivables", "TotalPayables"},
         "Failed to fetch payment data") >>

\* the goroutines loadDashboard starts
Sections == {"stock", "purchase", "system", "sales", "payments"}

Fetch(s) ==
  CASE s = "stock" -> fetchStockMetrics
    [] s = "purchase" -> fetchPurchaseMetrics
    [] s = "system" -> fetchSystemMetrics
    [] s = "sales" -> fetchSalesMetrics
    [] s = "payments" -> fetchPaymentMetrics

Requests == UNION { { Fetch(s)[i].name : i \in 1..Len(Fetch(s)) } : s \in Sections }

ReportFields == UNION { UNION { Fetch(s)[i].fields : i \in 1..Len(Fetch(s)) } : s \in Sections }

\* what the backend may answer: the rows asked for, an error or, for the
\* submitted purchase orders, rows in which two suppliers have as many orders
Answers(r) == {"ok", "err"} \cup (IF r = "SubmittedPO" THEN {"tied"} ELSE {})

\* sort.Slice by POCount over the entries of a map: suppliers with as many
\* orders come out in either order
TopSuppliers(answer) == IF answer = "tied" THEN {"A,B", "B,A"} ELSE {"top"}

\* the values a successful request may leave in a field
Computed(field, answer) == IF field = "TopSuppliers" THEN TopSuppliers(answer) ELSE {"set"}

\* data := &ReportData{}, var mu sync.Mutex, var wg sync.WaitGroup, and the
\* position of loadDashboard's command and of each goroutine
ReportData == [f \in ReportFields |-> ""]

NoCollection ==
  [main |-> "idle", pc |-> [s \in Sections |-> [i |-> 0, at |-> "off"]],
   mu |-> "", wg |-> 0, data |-> ReportData, Errors |-> << >>,
   answers |-> [r \in Requests |-> "ok"]]

\* ------------------------------------------------------ the setup wizard
\* characters one field of the wizard holds at most in a run
MaxChars == 1

\* saveConfig commands the runtime holds at once
MaxSaves == 2

\* validateCredentials commands the runtime holds at once
MaxValidations == 2

SetupSteps ==
  {"SetupWelcome", "SetupURL", "SetupAPIKey", "SetupAPISecret", "SetupVPN",
   "SetupValidating", "SetupSuccess", "SetupError"}

\* m.step >= SetupURL && m.step <= SetupVPN
FormSteps == {"SetupURL", "SetupAPIKey", "SetupAPISecret", "SetupVPN"}

\* textinput.New(): empty and blurred
NewInput == [value |-> << >>, focus |-> FALSE]

\* six inputs, none focused; focusIndex counts from 0 as in the source and
\* inputs[i + 1] is the source's inputs[i]; err: m.err != nil
NewSetupTUI ==
  [step |-> "SetupWelcome", inputs |-> [i \in 1..6 |-> NewInput],
   focusIndex |-> 0, err |-> FALSE]

\* what Update returns: the model, the commands that reach the backend or
\* the disk (textinput.Blink and spinner.Tick change no field kept here),
\* and whether tea.Quit is among them
SetupRes(sm, cmd, quit) == [m |-> sm, cmd |-> cmd, quit |-> quit]

updateInputFocus(sm) ==
  [sm EXCEPT !.inputs =
     [i \in 1..6 |-> [sm.inputs[i] EXCEPT !.focus = (i - 1 = sm.focusIndex)]]]

\* the keys the wizard is given: "x" stands for a printable character
SetupKeys ==
  {"ctrl+c", "esc", "enter", "tab", "down", "shift+tab", "up", "x", "backspace"}

\* textinput.Model.Update: a blurred input ignores the message; a focused
\* one takes the character while it has room and drops its last one on
\* backspace; no other key given here changes its value
inputUpdate(inp, key) ==
  IF ~inp.focus THEN inp
  ELSE IF key = "x" /\ Len(inp.value) < MaxChars
         THEN [inp EXCEPT !.value = Append(@, "x")]
  ELSE IF key = "backspace" /\ inp.value # << >>
         THEN [inp EXCEPT !.value = SubSeq(@, 1, Len(@) - 1)]
  ELSE inp

updateInputs(sm, key) ==
  [sm EXCEPT !.inputs = [i \in 1..6 |-> inputUpdate(sm.inputs[i], key)]]

\* the required-field checks of handleEnter: the index of the first of
\* URL, key and secret that is empty, -1 when none is
firstEmptyRequired(inputs) ==
  IF inputs[1].value = << >> THEN 0
  ELSE IF inputs[2].value = << >> THEN 1
  ELSE IF inputs[3].value = << >> THEN 2
  ELSE -1

setupHandleEnter(sm) ==
  CASE sm.step = "SetupWelcome" ->
         SetupRes([sm EXCEPT !.step = "SetupURL", !.focusIndex = 0,
                             !.inputs[1].focus = TRUE], << >>, FALSE)
    [] sm.step \in FormSteps ->
         IF firstEmptyRequired(sm.inputs) # -1
         THEN SetupRes(updateInputFocus(
                [sm EXCEPT !.focusIndex = firstEmptyRequired(sm.inputs)]), << >>, FALSE)
         ELSE SetupRes([sm EXCEPT !.step = "SetupValidating"],
                       << "validateCredentials" >>, FALSE)
    [] sm.step = "SetupSuccess" -> SetupRes(sm, << "saveConfig" >>, FALSE)
    [] sm.step = "SetupError" ->
         SetupRes(updateInputFocus(
           [sm EXCEPT !.step = "SetupURL", !.focusIndex = 0, !.err = FALSE]), << >>, FALSE)
    [] OTHER -> SetupRes(sm, << >>, FALSE)

\* SetupModel.Update on a tea.KeyMsg
setupUpdateKey(sm, key) ==
  CASE key = "ctrl+c" -> SetupRes(sm, << >>, TRUE)
    [] key = "esc" ->
         IF sm.step = "SetupValidating" THEN SetupRes(sm, << >>, FALSE)
         ELSE SetupRes(sm, << >>, TRUE)
    [] key = "enter" -> setupHandleEnter(sm)
    [] key \in {"tab", "down"} /\ sm.step \in FormSteps ->
         SetupRes(updateInputFocus(
           [sm EXCEPT !.focusIndex = IF @ + 1 > 5 THEN 0 ELSE @ + 1]), << >>, FALSE)
    [] key \in {"shift+tab", "up"} /\ sm.step \in FormSteps ->
         SetupRes(updateInputFocus(
           [sm EXCEPT !.focusIndex = IF @ - 1 < 0 THEN 5 ELSE @ - 1]), << >>, FALSE)
    [] OTHER ->
         IF sm.step \in FormSteps THEN SetupRes(updateInputs(sm, key), << >>, FALSE)
         ELSE SetupRes(sm, << >>, FALSE)

\* SetupModel.Update on the result of validateCredentials
setupValidateMsg(sm, success) ==
  IF success THEN SetupRes([sm EXCEPT !.step = "SetupSuccess"], << >>, FALSE)
  ELSE SetupRes([sm EXCEPT !.step = "SetupError", !.err = TRUE], << >>, FALSE)

\* SetupModel.Update on the result of saveConfig
setupSaveMsg(sm, success) ==
  IF success THEN SetupRes(sm, << >>, TRUE)
  ELSE SetupRes([sm EXCEPT !.step = "SetupError", !.err = TRUE], << >>, FALSE)

\* how many of the commands are c
Count(cmd, c) == Len(SelectSeq(cmd, LAMBDA x : x = c))

\* the wizard is not running
NoWizard == [m |-> NewSetupTUI, validations |-> 0, saves |-> 0, status |-> "off"]

\* ---------------------------------------------------------- the program
\* m: the Model; tasks: the commands in flight; timers: the notification
\* timers running; status: running, quit (tea.Quit) or panic; order: the
\* evaluation order of the build, "" until a statement that depends on it
\* has run; session: what bounds this run (the screens the operator opens
\* from the menus, the commands and the timers the runtime holds at once);
\* dash: the collection a dashboard command runs; setup: the setup wizard's
\* model, its commands in flight and whether it runs
VARIABLES m, tasks, timers, status, order, session, dash, setup

vars == << m, tasks, timers, status, order, session, dash, setup >>

Categories == {InventoryLists, StockLists, SalesLists, PurchasingLists, PaymentsLists,
               {"ViewDashboard"}}

OverlapScreens == PaymentsLists \cup {"ViewDashboard", "ViewBrands"}

TourScreens == StockLists

CrossScreens == {"ViewBrands", "ViewSuppliers"}

Sessions(n) == UNION { { S \in SUBSET C : Cardinality(S) = n } : C \in Categories }

\* NewTUI, then Init: the connectivity probe is the first command
Start ==
  /\ m = NewTUI
  /\ tasks = << detectConnection >>
  /\ timers = 0
  /\ status = "running"
  /\ order = ""

\* the runs explored: any one screen; overlapping commands and timers on the
\* payment list, the dashboard and the brand list; one screen more within the
\* stock category; window-size messages on the dashboard; a list of the
\* inventory and a list of the purchasing category in one run
Scenarios ==
  [screens : Sessions(MaxLists), tasks : {MaxTasks}, timers : {MaxTimers}, resizes : {0}]
  \cup [screens : { S \in Sessions(MaxLists) : S \subseteq OverlapScreens },
        tasks : {MaxTasks + 1}, timers : {MaxTimers + 1}, resizes : {0}]
  \cup [screens : { S \in Sessions(MaxLists + 1) : S \subseteq TourScreens },
        tasks : {MaxTasks}, timers : {MaxTimers}, resizes : {0}]
  \cup [screens : { {"ViewDashboard"} }, tasks : {MaxTasks}, timers : {MaxTimers},
        resizes : {MaxResizes}]
  \cup [screens : { CrossScreens }, tasks : {MaxTasks}, timers : {MaxTimers},
        resizes : {0}]

Init == Start /\ session \in Scenarios /\ dash = NoCollection /\ setup = NoWizard

\* the entries the key may find highlighted in the list the view shows
SelSet(mm) ==
  LET n == CASE mm.view = "ViewMain" -> Len(MainMenuItems)
             [] mm.view \in Menus -> Len(SubMenuItems(mm.subMenu))
             [] OTHER -> Len(mm.currentList.items)
  IN  IF n = 0 THEN {0} ELSE 1..n

\* the menu entry Enter opens is one the session visits
InSession(mm, key, sel) ==
  CASE key = "enter" /\ mm.view = "ViewMain" ->
         \E v \in session.screens : v = MainMenuItems[sel].view
                            \/ MenuOfList(v).view = MainMenuItems[sel].view
    [] key = "enter" /\ mm.view \in Menus /\ sel \in 1..Len(SubMenuItems(mm.subMenu)) ->
         SubMenuItems(mm.subMenu)[sel].view \in session.screens
    [] OTHER -> TRUE

RECURSIVE Typed(_, _)
Typed(inputs, n) ==
  IF n = 0 THEN 0
  ELSE Cardinality({ j \in 1..Len(inputs[n].value) : inputs[n].value[j] \in Printable })
       + Typed(inputs, n - 1)

TypedOK(mm) == Typed(mm.inputs, Len(mm.inputs)) <= MaxTyped

\* on a form every command letter reaches the focused field the way z does
\* (no case of Update matches a form view): the operator types z for them
FormLetters == {"d", "y", "n", "t", "i", "a", "s", "x", "p", "o", "v"}

\* what of the model is read again: the fields of a form are read while a form
\* is shown and every way into a form runs its init*Form first; confirmAction
\* is read on the confirmation screen, which every way in sets first
Live(mm) ==
  [mm EXCEPT !.inputs = IF mm.view \in FormViews THEN @ ELSE << >>,
             !.focusIndex = IF mm.view \in FormViews THEN @ ELSE 0,
             !.confirmAction = IF mm.view = "ViewConfirmAction" THEN @ ELSE ""]

\* tea.Quit: the program ends on the screen it shows
Ended(mm) == [NewTUI EXCEPT !.view = mm.view, !.loading = FALSE]

\* the key runs a statement whose result depends on the evaluation order
OrderMatters(mm, key) == mm.view = "ViewConfirmAction" /\ key \in {"y", "n"}

\* the evaluation orders the build may still have
Orders == IF order = "" THEN EvalOrders ELSE {order}

KeyPress(key) ==
  /\ m.view \in FormViews => key \notin FormLetters
  /\ \E sel \in SelSet(m) :
       \E ord \in IF OrderMatters(m, key) THEN Orders ELSE {order} :
       \E r \in { UpdateKey(m, key, sel, ord) } :
       /\ InSession(m, key, sel)
       /\ order' = ord
       /\ r.cmd # << >> => Len(tasks) + Len(r.cmd) <= session.tasks
       /\ TypedOK(r.m)
       /\ m' = IF r.quit THEN Ended(r.m) ELSE Live(r.m)
       /\ tasks' = IF r.quit THEN << >> ELSE tasks \o r.cmd
       /\ timers' = IF r.quit THEN 0 ELSE timers
       /\ status' = IF r.quit THEN "quit" ELSE IF r.panic THEN "panic" ELSE status
  /\ UNCHANGED << session, dash, setup >>

KeyCtrlC == status = "running" /\ KeyPress("ctrl+c")
KeyQ == status = "running" /\ KeyPress("q")
KeyEsc == status = "running" /\ KeyPress("esc")
KeyEnter == status = "running" /\ KeyPress("enter")
KeyD == status = "running" /\ KeyPress("d")
KeyY == status = "running" /\ KeyPress("y")
KeyN == status = "running" /\ KeyPress("n")
KeyR == status = "running" /\ KeyPress("r")
KeyT == status = "running" /\ KeyPress("t")
KeyI == status = "running" /\ KeyPress("i")
KeyA == status = "running" /\ KeyPress("a")
KeyS == status = "running" /\ KeyPress("s")
KeyX == status = "running" /\ KeyPress("x")
KeyP == status = "running" /\ KeyPress("p")
KeyO == status = "running" /\ KeyPress("o")
KeyV == status = "running" /\ KeyPress("v")
KeyOther == status = "running" /\ KeyPress("z")
KeyTab == status = "running" /\ KeyPress("tab")
KeyDown == status = "running" /\ KeyPress("down")
KeyShiftTab == status = "running" /\ KeyPress("shift+tab")
KeyUp == status = "running" /\ KeyPress("up")

RemoveAt(seq, i) == SubSeq(seq, 1, i - 1) \o SubSeq(seq, i + 1, Len(seq))

\* a fetch of the same list dispatched before the one whose rows arrive now
\* has been overtaken
MarkLate(seq, i, msg) ==
  [j \in DOMAIN seq |->
     IF msg.type = "dataLoadedMsg" /\ j < i /\ seq[j].kind = "list"
        /\ seq[j].target = seq[i].target
       THEN [seq[j] EXCEPT !.late = TRUE] ELSE seq[j]]

\* command i returns msg: Update applies it and the commands it returns are
\* dispatched (a tick is a timer)
Deliver(i, msg) ==
  \E r \in { UpdateMsg(m, msg, tasks[i]) } :
  LET rest == RemoveAt(MarkLate(tasks, i, msg), i)
      ticks == Len(SelectSeq(r.cmd, IsTick))
  IN  /\ timers + ticks <= session.timers
      /\ m' = r.m
      /\ tasks' = rest \o SelectSeq(r.cmd, NotTick)
      /\ timers' = timers + ticks
      /\ UNCHANGED << status, order, session, dash, setup >>

Returns(type) ==
  \E i \in 1..Len(tasks) : \E msg \in Results(tasks[i]) :
    msg.type = type /\ Deliver(i, msg)

Connected == status = "running" /\ Returns("connectedMsg")
Failed == status = "running" /\ Returns("errorMsg")
DataLoaded == status = "running" /\ Returns("dataLoadedMsg")
ItemDetail == status = "running" /\ Returns("itemDetailMsg")
ActionDone == status = "running" /\ Returns("actionDoneMsg")
DashboardLoaded == status = "running" /\ Returns("dashboardLoadedMsg")
StockData == status = "running" /\ Returns("stockDataMsg")
FormSubmitted == status = "running" /\ Returns("formSubmittedMsg")

\* the timer of a notification fires
ClearNotification ==
  /\ status = "running"
  /\ timers > 0
  /\ m' = UpdateMsg(m, Msg("clearNotificationMsg", << >>, NoData, TRUE), Tick).m
  /\ timers' = timers - 1
  /\ UNCHANGED << tasks, status, order, session, dash, setup >>

\* the terminal reports its size (at start and whenever the window changes);
\* session.resizes counts the reports still to come
WindowSize ==
  /\ status = "running"
  /\ session.resizes > 0
  /\ m' = Live(UpdateMsg(m, Msg("WindowSizeMsg", << >>, NoData, TRUE), Tick).m)
  /\ session' = [session EXCEPT !.resizes = @ - 1]
  /\ UNCHANGED << tasks, timers, status, order, dash, setup >>

Next ==
  \/ KeyCtrlC \/ KeyQ \/ KeyEsc \/ KeyEnter \/ KeyD \/ KeyY \/ KeyN \/ KeyR
  \/ KeyT \/ KeyI \/ KeyA \/ KeyS \/ KeyX \/ KeyP \/ KeyO \/ KeyV \/ KeyOther
  \/ KeyTab \/ KeyDown \/ KeyShiftTab \/ KeyUp
  \/ Connected \/ Failed \/ DataLoaded \/ ItemDetail \/ ActionDone
  \/ DashboardLoaded \/ StockData \/ FormSubmitted \/ ClearNotification
  \/ WindowSize

Spec == Init /\ [][Next]_vars

\* ------------------------------------------- the dashboard command's run
main == << m, tasks, timers, status, order, session, setup >>

\* the answers the backend gives during one collection
AnswerSets ==
  { [r \in Requests |-> IF r \in F THEN "err" ELSE IF r \in T THEN "tied" ELSE "ok"] :
      F \in { G \in SUBSET Requests : Cardinality(G) <= MaxFailures },
      T \in SUBSET { r \in Requests : "tied" \in Answers(r) } }

\* the dashboard was opened from the main menu: its command is in flight
DashInit ==
  /\ m = [NewTUI EXCEPT !.view = "ViewDashboard", !.breadcrumbs = << "Main", "Dashboard" >>]
  /\ tasks = << loadDashboard >>
  /\ timers = 0
  /\ status = "running"
  /\ order = ""
  /\ session = [screens |-> {"ViewDashboard"}, tasks |-> MaxTasks, timers |-> MaxTimers,
                resizes |-> 0]
  /\ dash \in { [NoCollection EXCEPT !.answers = a] : a \in AnswerSets }
  /\ setup = NoWizard

\* where goroutine s stands after request i is dealt with; wg.Done is deferred
\* to its return
After(s, i) ==
  IF i < Len(Fetch(s)) THEN [i |-> i + 1, at |-> "req"] ELSE [i |-> i, at |-> "done"]

Returned(s, i) == IF i < Len(Fetch(s)) THEN 0 ELSE 1

\* wg.Add(5) and the five go statements: every goroutine's first request is
\* under way
Collect ==
  /\ dash.main = "idle"
  /\ dash' = [dash EXCEPT !.main = "wait", !.wg = Cardinality(Sections),
                          !.pc = [s \in Sections |-> [i |-> 1, at |-> "req"]]]
  /\ UNCHANGED main

\* c.Request returns to goroutine s: on success or on a failure that is
\* reported it goes on to mu.Lock, a failure that is dropped goes on to the
\* next request
Respond(s) ==
  LET i == dash.pc[s].i
      r == Fetch(s)[i]
  IN  /\ dash.pc[s].at = "req"
      /\ dash' = IF dash.answers[r.name] = "err" /\ r.notice = ""
                   THEN [dash EXCEPT !.pc[s] = After(s, i), !.wg = @ - Returned(s, i)]
                   ELSE [dash EXCEPT !.pc[s].at = "lock"]
      /\ UNCHANGED main

\* a faulty variant of the step below: the write is entered without waiting
\* for the mutex
LockNotAwaited(s) ==
  /\ dash.pc[s].at = "lock"
  /\ dash' = [dash EXCEPT !.pc[s].at = "held", !.mu = s]
  /\ UNCHANGED main

\* mu.Lock()
Lock(s) ==
  /\ dash.pc[s].at = "lock"
  /\ dash.mu = ""
  /\ dash' = [dash EXCEPT !.pc[s].at = "held", !.mu = s]
  /\ UNCHANGED main

\* the statements between mu.Lock() and mu.Unlock(): the fields of the
\* request are set, or its notice is appended to data.Errors
Write(s) ==
  LET r == Fetch(s)[dash.pc[s].i]
      a == dash.answers[r.name]
  IN  /\ dash.pc[s].at = "held"
      /\ \E vals \in [r.fields -> UNION { Computed(f, a) : f \in r.fields }] :
           /\ \A f \in r.fields : vals[f] \in Computed(f, a)
           /\ dash' = IF a = "err"
                        THEN [dash EXCEPT !.pc[s].at = "written",
                                          !.Errors = Append(@, r.notice)]
                        ELSE [dash EXCEPT !.pc[s].at = "written",
                                          !.data = [f \in ReportFields |->
                                                      IF f \in r.fields THEN vals[f]
                                                      ELSE @[f]]]
      /\ UNCHANGED main

\* mu.Unlock()
Unlock(s) ==
  LET i == dash.pc[s].i IN
  /\ dash.pc[s].at = "written"
  /\ dash' = [dash EXCEPT !.pc[s] = After(s, i), !.wg = @ - Returned(s, i), !.mu = ""]
  /\ UNCHANGED main

Answered == \E s \in Sections : Respond(s)
Locked == \E s \in Sections : Lock(s)
Written == \E s \in Sections : Write(s)
Unlocked == \E s \in Sections : Unlock(s)

\* a faulty variant of the step below: the message is returned without
\* waiting for the goroutines
EmitEarly ==
  /\ dash.main = "wait"
  /\ dash' = [dash EXCEPT !.main = "emitted"]
  /\ UNCHANGED main

\* wg.Wait() and return dashboardLoadedMsg{data}
Emit ==
  /\ dash.main = "wait"
  /\ dash.wg = 0
  /\ dash' = [dash EXCEPT !.main = "emitted"]
  /\ UNCHANGED main

DashNext == Collect \/ Answered \/ Locked \/ Written \/ Unlocked \/ Emit

SpecDashboard == DashInit /\ [][DashNext]_vars

\* --------------------------------------------------- the setup wizard's run
program == << m, tasks, timers, status, order, session, dash >>

\* RunSetupTUI: tea.NewProgram(NewSetupTUI()); the main program is not started
SetupInit ==
  /\ m = NewTUI
  /\ tasks = << >>
  /\ timers = 0
  /\ status = "off"
  /\ order = ""
  /\ session = [screens |-> {}, tasks |-> 0, timers |-> 0, resizes |-> 0]
  /\ dash = NoCollection
  /\ setup = [NoWizard EXCEPT !.status = "running"]

\* the runtime hands the key to Update, starts the commands it returns and
\* stops on tea.Quit
SetupKey(key) ==
  /\ setup.status = "running"
  /\ \E r \in { setupUpdateKey(setup.m, key) } :
       /\ setup.saves + Count(r.cmd, "saveConfig") <= MaxSaves
       /\ setup.validations + Count(r.cmd, "validateCredentials") <= MaxValidations
       /\ setup' = [m |-> r.m,
                    validations |-> IF r.quit THEN 0
                                    ELSE setup.validations + Count(r.cmd, "validateCredentials"),
                    saves |-> IF r.quit THEN 0
                              ELSE setup.saves + Count(r.cmd, "saveConfig"),
                    status |-> IF r.quit THEN "quit" ELSE "running"]
  /\ UNCHANGED program

SetupCtrlC == setup.status = "running" /\ SetupKey("ctrl+c")
SetupEsc == setup.status = "running" /\ SetupKey("esc")
SetupEnter == setup.status = "running" /\ SetupKey("enter")
SetupTab == setup.status = "running" /\ \E key \in {"tab", "down"} : SetupKey(key)
SetupShiftTab == setup.status = "running" /\ \E key \in {"shift+tab", "up"} : SetupKey(key)
SetupType == setup.status = "running" /\ \E key \in {"x", "backspace"} : SetupKey(key)

\* a validateCredentials command returns its setupValidateMsg
SetupValidated ==
  /\ setup.status = "running"
  /\ setup.validations > 0
  /\ \E success \in BOOLEAN : \E r \in { setupValidateMsg(setup.m, success) } :
       setup' = [setup EXCEPT !.m = r.m, !.validations = @ - 1]
  /\ UNCHANGED program

\* a saveConfig command returns its setupSaveMsg
SetupSaved ==
  /\ setup.status = "running"
  /\ setup.saves > 0
  /\ \E success \in BOOLEAN : \E r \in { setupSaveMsg(setup.m, success) } :
       setup' = [m |-> r.m,
                 validations |-> IF r.quit THEN 0 ELSE setup.validations,
                 saves |-> IF r.quit THEN 0 ELSE setup.saves - 1,
                 status |-> IF r.quit THEN "quit" ELSE "running"]
  /\ UNCHANGED program

SetupNext ==
  \/ SetupEsc
  \/ SetupCtrlC
  \/ SetupEnter
  \/ SetupTab
  \/ SetupShiftTab
  \/ SetupType
  \/ SetupValidated
  \/ SetupSaved

SpecSetup == SetupInit /\ [][SetupNext]_vars

\* ------------------------------------------------- the reduction is sound
\* fields Live drops, with other values in their place
Stale(mm) ==
  { [mm EXCEPT !.inputs = IF mm.view \in FormViews THEN @ ELSE i,
               !.focusIndex = IF mm.view \in FormViews THEN @ ELSE f,
               !.confirmAction = IF mm.view = "ViewConfirmAction" THEN @ ELSE a] :
      i \in { NewInputs(3, << "R1" >>) }, f \in {2}, a \in {"submit_po"} }

\* whatever the dropped fields held, every key and every message leaves the
\* same live model and the same commands
LiveIsEnough ==
  \A mm \in Stale(m) :
    /\ \A key \in Keys : \A sel \in SelSet(m) : \A ord \in EvalOrders :
         LET a == UpdateKey(m, key, sel, ord)
             b == UpdateKey(mm, key, sel, ord)
         IN  Live(a.m) = Live(b.m) /\ a.cmd = b.cmd /\ a.quit = b.quit /\ a.panic = b.panic
    /\ \A i \in 1..Len(tasks) : \A msg \in Results(tasks[i]) :
         LET a == UpdateMsg(m, msg, tasks[i])
             b == UpdateMsg(mm, msg, tasks[i])
         IN  Live(a.m) = Live(b.m) /\ a.cmd = b.cmd

\* ------------------------------------------------------------ properties
IsDestructive(t) == t.kind \in DocActions \cup {"delete"}

IsFetch(t) == t.kind \in {"list", "detail", "stock", "dashboard"}

HasDestructive(cmd) == \E j \in 1..Len(cmd) : IsDestructive(cmd[j])

Succeeds(msg) == msg.ok /\ msg.type \in {"formSubmittedMsg", "actionDoneMsg"}

\* C1: a list-fetch result dispatched for a screen that is no longer the
\* current screen when it is applied leaves the list snapshot as it was
C1_StaleListDiscarded ==
  status = "running" =>
    \A i \in 1..Len(tasks) : \A msg \in Results(tasks[i]) :
      (msg.type = "dataLoadedMsg" /\ tasks[i].target # m.view)
        => UpdateMsg(m, msg, tasks[i]).m.currentList = m.currentList

\* C2: every list result that is delivered is applied and its rows become the
\* list snapshot, also while another refresh of the same list is outstanding
\* or has overtaken it: after two overlapping refreshes the snapshot is the
\* payload of the one that arrived last, whichever was dispatched first
C2_LastArrivalWins ==
  [][\A i \in 1..Len(tasks) : \A msg \in Results(tasks[i]) :
       (msg.type = "dataLoadedMsg" /\ Deliver(i, msg))
         => m'.currentList.items = msg.items]_vars

\* C2, its case: the rows shown came from a refresh that a later refresh of
\* the same list had overtaken, so the first dispatched arrived last
C2_OvertakenApplied ==
  status = "running" /\ m.currentList.late /\ m.currentList.src = m.view

\* C3: the loading flag is true exactly while a dispatched command has not
\* had its terminating message applied
C3_LoadingIffOutstanding ==
  status = "running" => (m.loading <=> tasks # << >>)

\* the entry of the list the view `back` shows that selects what mm shows
Reselects(mm, back, sel) ==
  CASE mm.view \in DetailViews -> SelectedRow(back, sel) = mm.selectedItem
    [] mm.view \in ListViews ->
         /\ back.view \in Menus
         /\ sel \in 1..Len(SubMenuItems(back.subMenu))
         /\ SubMenuItems(back.subMenu)[sel].view = mm.view
    [] mm.view \in Menus \cup {"ViewDashboard"} ->
         back.view = "ViewMain" /\ MainMenuItems[sel].view = mm.view
    [] OTHER -> FALSE

\* C4: on a screen entered by Enter, Esc followed by the Enter that entered
\* it gives the same screen and the same breadcrumbs as before the Esc
C4_RoundTrip ==
  status = "running" =>
    LET back == UpdateKey(m, "esc", 0, "call-first").m IN
    \A sel \in SelSet(back) :
      Reselects(m, back, sel) =>
        LET again == UpdateKey(back, "enter", sel, "call-first").m IN
        again.view = m.view /\ again.breadcrumbs = m.breadcrumbs

\* C5: the breadcrumbs are never empty, their first element is "Main", and
\* no slice of them is taken beyond their length
C5_RootKept ==
  /\ status # "panic"
  /\ Len(m.breadcrumbs) >= 1
  /\ m.breadcrumbs[1] = "Main"

\* C5, its case: Esc on a detail screen has cut the breadcrumbs of a list
\* screen down to two
C5_Truncated ==
  status = "running" /\ m.view \in ListViews /\ Len(m.breadcrumbs) = 2

\* C6: the breadcrumbs never hold more than the four levels Main > category >
\* list > entity
C6_DepthBounded == Len(m.breadcrumbs) <= 4

C8_YesWritesOnce ==
  (status = "running" /\ m.view \in ConfirmViews) =>
    \A sel \in SelSet(m) : \A ord \in Orders :
      LET cmd == UpdateKey(m, "y", sel, ord).cmd IN
      Len(cmd) = 1 /\ IsDestructive(cmd[1]) /\ cmd[1].key = m.selectedItem

\* C9: when the success of a confirmed delete, submit or cancel is applied,
\* the screen shown is the one the confirmation was opened from and exactly
\* one fetch of what that screen shows is dispatched
C9_ParentReloaded ==
  status = "running" =>
    \A i \in 1..Len(tasks) : \A msg \in Results(tasks[i]) :
      (IsDestructive(tasks[i]) /\ Succeeds(msg)) =>
        LET r == UpdateMsg(m, msg, tasks[i])
            fetches == SelectSeq(r.cmd, IsFetch)
        IN  /\ r.m.view = tasks[i].target
            /\ Len(fetches) = 1
            /\ fetches[1].target = r.m.view

\* C10: every success of a backend action sets a success message and starts
\* a timer whose message clears it
C10_SuccessAutoCleared ==
  status = "running" =>
    \A i \in 1..Len(tasks) : \A msg \in Results(tasks[i]) :
      (tasks[i].kind \in WriteKinds /\ Succeeds(msg)) =>
        LET r == UpdateMsg(m, msg, tasks[i])
            cleared == UpdateMsg(r.m, Msg("clearNotificationMsg", << >>, NoData, TRUE),
                                 Tick).m
        IN  /\ r.m.messageType = "success" \/ r.m.showNotification
            /\ \E j \in 1..Len(r.cmd) : IsTick(r.cmd[j])
            /\ cleared.messageType # "success" /\ ~cleared.showNotification

\* the messages of the runtime that no command ends
Resize == Msg("WindowSizeMsg", << >>, NoData, TRUE)

ClearNotice == Msg("clearNotificationMsg", << >>, NoData, TRUE)

Filled(mm) == Len(mm.inputs) > 0 /\ mm.inputs[1].value # << >>

\* C12: Enter on a form whose required fields are empty dispatches no
\* command, sets an error message and leaves the screen as it is
C12_EmptySubmitRejected ==
  (status = "running" /\ m.view \in FormViews /\ ~Filled(m)) =>
    \A sel \in SelSet(m) : \A ord \in Orders :
      LET r == UpdateKey(m, "enter", sel, ord) IN
      r.cmd = << >> /\ r.m.messageType = "error" /\ r.m.view = m.view

\* C13: Enter on a form whose required fields are filled reaches the submit
\* routine and dispatches exactly one write command of that form
C13_EnterSubmits ==
  (status = "running" /\ m.view \in FormViews /\ Filled(m)) =>
    \A sel \in SelSet(m) : \A ord \in Orders :
      LET cmd == UpdateKey(m, "enter", sel, ord).cmd IN
      Len(cmd) = 1 /\ cmd[1].kind = "form" /\ cmd[1].target = m.view

RECURSIVE Pressed(_, _, _)
Pressed(mm, key, n) ==
  IF n = 0 THEN mm ELSE Pressed(UpdateKey(mm, key, 0, "call-first").m, key, n - 1)

\* C15: on a form with k fields, k presses of Tab or Down bring focusIndex
\* back to where it was, so do k presses of Shift+Tab or Up, and a step to
\* the next field followed by a step to the previous one changes nothing
C15_FocusCycle ==
  (status = "running" /\ m.view \in FormViews) =>
    LET k == Len(m.inputs) IN
    /\ \A key \in {"tab", "down", "shift+tab", "up"} :
         Pressed(m, key, k).focusIndex = m.focusIndex
    /\ \A next \in {"tab", "down"} : \A prev \in {"shift+tab", "up"} :
         Pressed(Pressed(m, next, 1), prev, 1).focusIndex = m.focusIndex

\* C15, its case: the focus has been moved to the last of several fields, so
\* the next step forward wraps
C15_FocusOnLastField ==
  /\ status = "running" /\ m.view \in FormViews
  /\ Len(m.inputs) >= 2
  /\ m.focusIndex = Len(m.inputs) - 1
  /\ m.inputs[Len(m.inputs)].focused

\* C16: while a form is shown focusIndex is an index of one of its fields
C16_FocusInRange ==
  (status = "running" /\ m.view \in FormViews) =>
    (0 <= m.focusIndex /\ m.focusIndex < Len(m.inputs))

\* C16, its case: on a form the focus is back on the first field after a
\* later field was typed into
C16_FocusCameBack ==
  /\ status = "running" /\ m.view \in FormViews
  /\ m.focusIndex = 0
  /\ \E j \in 2..Len(m.inputs) : m.inputs[j].value # << >>

\* the goroutines that have not returned
Running == { s \in Sections : dash.pc[s].at \notin {"off", "done"} }

\* the goroutines between mu.Lock() and mu.Unlock()
InWrite == { s \in Sections : dash.pc[s].at \in {"held", "written"} }

\* C17: the dashboard message is returned only after every section task has
\* returned, so the record the event loop receives is written by no one
C17_Barrier ==
  dash.main = "emitted" => (Running = {} /\ InWrite = {} /\ dash.mu = "")

\* C17, its case: the message has been returned after a collection in which
\* the item count was written
C17_Emitted == dash.main = "emitted" /\ dash.data["TotalItems"] = "set"

\* the record a collection leaves when the goroutines run one after another
\* in the order they are started, suppliers in the order of their names
Sequential(answers) ==
  [data |-> [f \in ReportFields |->
               IF \E s \in Sections : \E i \in 1..Len(Fetch(s)) :
                    f \in Fetch(s)[i].fields /\ answers[Fetch(s)[i].name] # "err"
                 THEN IF f = "TopSuppliers" /\ answers["SubmittedPO"] = "tied"
                        THEN "A,B"
                        ELSE IF f = "TopSuppliers" THEN "top" ELSE "set"
                 ELSE ""],
   Errors |-> SelectSeq(<< "Failed to fetch items", "Failed to fetch stock data",
                           "Failed to fetch sales data", "Failed to fetch payment data" >>,
                        LAMBDA n : \E s \in Sections : \E i \in 1..Len(Fetch(s)) :
                          Fetch(s)[i].notice = n /\ answers[Fetch(s)[i].name] = "err")]

\* C18: for given answers of the backend every run of the collection leaves
\* the same record, the notices in the same order: the one the sequential
\* run leaves
C18_MergeOrderIndependent ==
  dash.main = "emitted" =>
    [data |-> dash.data, Errors |-> dash.Errors] = Sequential(dash.answers)

\* the notices section s may append
Notices(s) == { Fetch(s)[i].notice : i \in 1..Len(Fetch(s)) } \ {""}

\* C19: when a request of a section fails the collection still completes,
\* the fields of the requests that succeeded are set, and the notice list
\* holds a notice of every section that had a failure
C19_PartialWithNotices ==
  /\ dash.main = "wait" => ENABLED DashNext
  /\ dash.main = "emitted" =>
       /\ \A s \in Sections : \A i \in 1..Len(Fetch(s)) :
            dash.answers[Fetch(s)[i].name] # "err" =>
              \A f \in Fetch(s)[i].fields : dash.data[f] # ""
       /\ \A s \in Sections :
            (\E i \in 1..Len(Fetch(s)) : dash.answers[Fetch(s)[i].name] = "err") =>
              \E j \in 1..Len(dash.Errors) : dash.Errors[j] \in Notices(s)

\* C20: the record changes only in a step of the goroutine that holds the
\* mutex, at most one goroutine is between Lock and Unlock, and the goroutine
\* that holds the mutex has no request under way
C20_WritesUnderMutex ==
  /\ [](Cardinality(InWrite) <= 1)
  /\ [](\A s \in Sections : dash.mu = s => dash.pc[s].at \in {"held", "written"})
  /\ [][(dash'.data # dash.data \/ dash'.Errors # dash.Errors) =>
          \E s \in Sections : /\ dash.mu = s
                              /\ dash.pc[s].at = "held"
                              /\ dash'.pc[s].at = "written"
                              /\ dash'.mu = s]_vars

\* C20, its case: a goroutine holds the mutex while another waits for it and
\* a third has a request under way
C20_Contended ==
  \E s, t, u \in Sections :
    /\ dash.mu = s /\ dash.pc[s].at = "held"
    /\ dash.pc[t].at = "lock"
    /\ dash.pc[u].at = "req"

\* C21: Enter on a list screen whose list has no rows changes nothing: the
\* screen, the breadcrumbs, the selection, the loading flag and the message
\* shown (an error included) stay as they are and no command is dispatched
C21_EmptySelectNoOp ==
  (status = "running" /\ m.view \in ListViews /\ m.currentList.items = << >>) =>
    \A sel \in SelSet(m) : \A ord \in Orders :
      LET r == UpdateKey(m, "enter", sel, ord) IN
      /\ r.cmd = << >>
      /\ r.m.view = m.view
      /\ r.m.breadcrumbs = m.breadcrumbs
      /\ r.m.selectedItem = m.selectedItem
      /\ r.m.loading = m.loading
      /\ r.m.messageType = m.messageType

\* C22: Esc on a form or on a confirmation screen shows the screen the form
\* or confirmation was opened from and dispatches no command, whatever was
\* done before it was opened
C22_EscReturnsToOpener ==
  (status = "running" /\ m.view \notin FormViews \cup ConfirmViews) =>
    \A key \in Keys : \A sel \in SelSet(m) : \A ord \in Orders :
      LET opened == UpdateKey(m, key, sel, ord).m IN
      opened.view \in FormViews \cup ConfirmViews =>
        LET back == UpdateKey(opened, "esc", 0, ord) IN
        back.cmd = << >> /\ back.m.view = m.view

\* C23: Esc on a list screen shows the category menu whose entries hold that
\* list, with the breadcrumbs Main, category; Esc on a category menu shows
\* the main menu with the breadcrumbs Main; neither dispatches a command
C23_EscToOwningMenu ==
  status = "running" =>
    LET r == UpdateKey(m, "esc", 0, "call-first") IN
    /\ m.view \in ListViews =>
         /\ r.cmd = << >>
         /\ \E i \in 1..Len(MainMenuItems) :
              LET cat == MainMenuItems[i] IN
              /\ \E j \in 1..Len(SubMenuItems(cat.title)) :
                   SubMenuItems(cat.title)[j].view = m.view
              /\ r.m.view = cat.view
              /\ r.m.breadcrumbs = << "Main", cat.title >>
    /\ m.view \in Menus =>
         r.cmd = << >> /\ r.m.view = "ViewMain" /\ r.m.breadcrumbs = << "Main" >>

\* C23, its case: Esc on a list screen whose rows had been fetched has led
\* to the menu of its category
C23_BackOnMenu ==
  /\ status = "running" /\ m.view \in Menus
  /\ m.currentList.src \in ListViews
  /\ MenuOfList(m.currentList.src).view = m.view
  /\ m.breadcrumbs = << "Main", m.subMenu >>

\* C24: while a detail screen is shown and nothing is loading, the detail
\* record is absent or is the record fetched for the entity selected on that
\* screen
C24_SnapshotOfSelection ==
  (status = "running" /\ m.view \in DetailViews /\ ~m.loading) =>
    \/ m.itemData = NoData
    \/ m.itemData.kind = m.view /\ m.itemData.key = m.selectedItem

\* C25: q ends the program when the main menu is shown and on no other screen
C25_QuitOnlyAtRoot ==
  status = "running" =>
    \A sel \in SelSet(m) : \A ord \in Orders :
      UpdateKey(m, "q", sel, ord).quit <=> m.view = "ViewMain"

\* C25, its case: q was pressed on another screen and the program runs on,
\* the main menu shown under the breadcrumbs of the screen that was left
C25_QWentToRoot ==
  status = "running" /\ m.view = "ViewMain" /\ Len(m.breadcrumbs) > 1

\* what a key without effect leaves: everything but the message, no command
Untouched(mm, r) ==
  /\ r.cmd = << >> /\ ~r.quit
  /\ r.m.view = mm.view
  /\ r.m.prevView = mm.prevView
  /\ r.m.breadcrumbs = mm.breadcrumbs
  /\ r.m.loading = mm.loading
  /\ r.m.selectedItem = mm.selectedItem
  /\ r.m.itemData = mm.itemData
  /\ r.m.currentList = mm.currentList
  /\ r.m.inputs = mm.inputs
  /\ r.m.focusIndex = mm.focusIndex

\* the screens on which r is no command: the menus, the forms and the detail
\* screens that give it no meaning of their own
NoRefresh == Menus \cup FormViews \cup (DetailViews \ {"ViewStockDetail", "ViewSODetail"})

\* C26: a command key that is not valid on the screen shown changes nothing
\* and dispatches nothing: r on a menu, a form or a detail screen, q on a form
C26_InvalidKeyNoOp ==
  status = "running" =>
    \A sel \in SelSet(m) : \A ord \in Orders :
      /\ m.view \in NoRefresh => Untouched(m, UpdateKey(m, "r", sel, ord))
      /\ m.view \in FormViews => Untouched(m, UpdateKey(m, "q", sel, ord))

\* C27: r on a list screen or on the dashboard dispatches exactly one fetch
\* of what that screen shows, sets the loading flag and leaves the screen
C27_RefreshReloads ==
  (status = "running" /\ m.view \in ListViews \cup {"ViewDashboard"}) =>
    \A sel \in SelSet(m) : \A ord \in Orders :
      LET r == UpdateKey(m, "r", sel, ord) IN
      /\ Len(r.cmd) = 1 /\ IsFetch(r.cmd[1]) /\ r.cmd[1].target = m.view
      /\ r.m.loading
      /\ r.m.view = m.view

\* C28: when a command a key dispatched reports a backend error, the error
\* message is shown and the screen and the breadcrumbs are those of before
\* the key
C28_ErrorRevertsScreen ==
  status = "running" =>
    \A key \in Keys : \A sel \in SelSet(m) : \A ord \in Orders :
      LET r == UpdateKey(m, key, sel, ord) IN
      \A j \in 1..Len(r.cmd) : \A msg \in Results(r.cmd[j]) :
        msg.type = "errorMsg" =>
          LET e == UpdateMsg(r.m, msg, r.cmd[j]).m IN
          /\ e.messageType = "error"
          /\ e.view = m.view
          /\ e.breadcrumbs = m.breadcrumbs

\* C29: from every screen a bounded number of Esc presses, with nothing in
\* between, leads to the main menu
C29_EscReachesRoot ==
  status = "running" => \E n \in 0..4 : Pressed(m, "esc", n).view = "ViewMain"

\* C29, its case: a form is shown that was opened from a detail screen, the
\* longest way back
C29_FormOverDetail ==
  /\ status = "running" /\ m.view \in FormViews /\ m.prevView \in DetailViews
  /\ Pressed(m, "esc", 3).view # "ViewMain"

\* the label Enter adds for the entry it opens
Label(mm, sel) ==
  CASE mm.view = "ViewMain" -> MainMenuItems[sel].title
    [] mm.view \in Menus -> SubMenuItems(mm.subMenu)[sel].title
    [] OTHER -> SelectedRow(mm, sel)

NeedsData == ListViews \cup DetailViews \cup {"ViewDashboard"}

\* C30: every Enter that opens an entry appends exactly one label to the
\* breadcrumbs; when what it opens is a list, a detail or the dashboard it
\* dispatches exactly one fetch and sets the loading flag; when it opens a
\* category menu it dispatches nothing
C30_SelectPushesOne ==
  status = "running" =>
    \A sel \in SelSet(m) : \A ord \in Orders :
      LET r == UpdateKey(m, "enter", sel, ord) IN
      r.m.view # m.view =>
        /\ r.m.breadcrumbs = Append(m.breadcrumbs, Label(m, sel))
        /\ r.m.view \in NeedsData =>
             Len(r.cmd) = 1 /\ IsFetch(r.cmd[1]) /\ r.cmd[1].target = r.m.view /\ r.m.loading
        /\ r.m.view \in Menus => r.cmd = << >>

\* C31: q on the sales-order list opens the form that creates a sales order
\* from a quotation; the main menu is not shown and the program runs on
C31_QOpensFromQuotation ==
  (status = "running" /\ m.view = "ViewSalesOrders") =>
    \A sel \in SelSet(m) : \A ord \in Orders :
      LET r == UpdateKey(m, "q", sel, ord) IN
      ~r.quit /\ r.m.view = "ViewCreateSOFromQuotation"

\* every command in ts returns, in any order and with any result, and so do
\* the commands their messages dispatch, while no key is pressed: the loading
\* flag is false at the end
RECURSIVE Drained(_, _)
Drained(mm, ts) ==
  IF ts = << >>
    THEN ~mm.loading
    ELSE \A i \in 1..Len(ts) : \A msg \in Results(ts[i]) :
           LET r == UpdateMsg(mm, msg, ts[i]) IN
           Drained(r.m, RemoveAt(ts, i) \o SelectSeq(r.cmd, NotTick))

\* C33: whenever the loading flag is true and the commands in flight all
\* return with no key pressed meanwhile, the loading flag becomes false
C33_LoadingEnds ==
  (status = "running" /\ m.loading) => Drained(m, tasks)

\* the keys an operator types into a field
Typable == Printable \cup {"q", "r"}

\* the characters a form's fields hold
Chars(inputs) == UNION { { inputs[i].value[j] : j \in 1..Len(inputs[i].value) } :
                          i \in 1..Len(inputs) }

\* C34: while a form is shown every printable key is appended to the field at
\* focusIndex and changes nothing else (q and r included), and the key that
\* opens a form is not put into one of its fields
C34_TypingStaysInField ==
  status = "running" =>
    \A key \in Keys : \A sel \in SelSet(m) : \A ord \in Orders :
      LET r == UpdateKey(m, key, sel, ord) IN
      /\ (m.view \in FormViews /\ key \in Typable) =>
           /\ r.cmd = << >> /\ ~r.quit
           /\ r.m = [m EXCEPT !.messageType = "",
                              !.inputs[m.focusIndex + 1].value = Append(@, key)]
      /\ (m.view \notin FormViews /\ r.m.view \in FormViews) =>
           key \notin Chars(r.m.inputs)

\* C35: while a form is shown exactly one field is focused, the one at
\* focusIndex
C35_OneFieldFocused ==
  (status = "running" /\ m.view \in FormViews) =>
    \A i \in 1..Len(m.inputs) : m.inputs[i].focused <=> (i = m.focusIndex + 1)

\* C36: while the timer of a success is still to fire, the notification of
\* that success is shown: the timer of an earlier success does not clear it
C36_NotificationLastsItsTime ==
  (status = "running" /\ timers > 0) => m.showNotification

\* C37: the breadcrumbs are Main on the main menu, Main and the category on
\* a category menu, Main, the category and the list on a list screen
C37_BreadcrumbsMatchScreen ==
  status = "running" =>
    /\ m.view = "ViewMain" => m.breadcrumbs = << "Main" >>
    /\ m.view \in Menus =>
         \E i \in 1..Len(MainMenuItems) :
           /\ MainMenuItems[i].view = m.view
           /\ m.breadcrumbs = << "Main", MainMenuItems[i].title >>
    /\ m.view \in ListViews =>
         \E i \in 1..Len(MainMenuItems) :
           \E j \in 1..Len(SubMenuItems(MainMenuItems[i].title)) :
             LET entry == SubMenuItems(MainMenuItems[i].title)[j] IN
             /\ entry.view = m.view
             /\ m.breadcrumbs = << "Main", MainMenuItems[i].title, entry.title >>

\* C38: when Enter or d on a list screen takes a row, the rows shown were
\* fetched for that list screen
C38_RowFromOwnList ==
  (status = "running" /\ m.view \in ListViews) =>
    \A key \in {"enter", "d"} : \A sel \in SelSet(m) : \A ord \in Orders :
      UpdateKey(m, key, sel, ord).m.view # m.view => m.currentList.src = m.view

\* C32: a window-size message changes the sizes and what is derived from
\* them, nothing else: the screen, the previous screen, the breadcrumbs, the
\* loading flag, the messages, the rows, the detail record, the fields of a
\* form and the dashboard content shown stay as they were; no command
C32_ResizeKeepsState ==
  status = "running" =>
    LET r == UpdateMsg(m, Resize, Tick) IN
    r.cmd = << >> /\ r.m = [m EXCEPT !.viewportReady = TRUE]

\* C39: while a category menu is shown, the entries of the submenu are those
\* of that category, and Enter on any of them leads to a list of the category
\* the breadcrumbs name
C39_SubmenuOfCategory ==
  (status = "running" /\ m.view \in Menus) =>
    /\ \E i \in 1..Len(MainMenuItems) :
         MainMenuItems[i].view = m.view /\ MainMenuItems[i].title = m.subMenu
    /\ \A sel \in SelSet(m) : \A ord \in Orders :
         LET r == UpdateKey(m, "enter", sel, ord) IN
         r.m.view \in ListViews =>
           \E j \in 1..Len(SubMenuItems(m.breadcrumbs[2])) :
             SubMenuItems(m.breadcrumbs[2])[j].view = r.m.view

\* the first of URL, key and secret that is empty, counted as the source
\* counts the inputs
FirstEmpty(sm) ==
  CHOOSE i \in 0..2 :
    /\ sm.inputs[i + 1].value = << >>
    /\ \A j \in 0..(i - 1) : sm.inputs[j + 1].value # << >>

Complete(sm) == \A i \in 1..3 : sm.inputs[i].value # << >>

\* C40: in the setup wizard a validation is dispatched only by Enter on a
\* form step whose URL, key and secret are all filled, and then exactly one;
\* with one of them empty Enter keeps the step, dispatches nothing and
\* focuses the first empty one; while the step is Validating Enter and Esc
\* change nothing, dispatch nothing and do not quit; at most one validation
\* is in flight; its result leaves the
\* wizard on Success or on Error and dispatches nothing; Enter on Error
\* returns to the form step with the error cleared
C40_OneValidation ==
  setup.status = "running" =>
    /\ \A key \in SetupKeys : \E r \in { setupUpdateKey(setup.m, key) } :
         /\ Count(r.cmd, "validateCredentials") > 0 =>
              /\ key = "enter"
              /\ setup.m.step \in FormSteps
              /\ Complete(setup.m)
         /\ (key = "enter" /\ setup.m.step \in FormSteps /\ Complete(setup.m)) =>
              /\ r.cmd = << "validateCredentials" >>
              /\ r.m.step = "SetupValidating"
              /\ ~r.quit
         /\ (key = "enter" /\ setup.m.step \in FormSteps /\ ~Complete(setup.m)) =>
              /\ r.cmd = << >>
              /\ ~r.quit
              /\ r.m.step = setup.m.step
              /\ r.m.focusIndex = FirstEmpty(setup.m)
              /\ \A i \in 1..6 : r.m.inputs[i].focus <=> (i - 1 = FirstEmpty(setup.m))
              /\ \A i \in 1..6 : r.m.inputs[i].value = setup.m.inputs[i].value
         /\ (key \in {"enter", "esc"} /\ setup.m.step = "SetupValidating") =>
              r = SetupRes(setup.m, << >>, FALSE)
         /\ (key = "enter" /\ setup.m.step = "SetupError") =>
              /\ r.m.step = "SetupURL"
              /\ ~r.m.err
              /\ r.cmd = << >>
              /\ ~r.quit
    /\ setup.validations <= 1
    /\ \A success \in BOOLEAN : \E r \in { setupValidateMsg(setup.m, success) } :
         /\ r.m.step = IF success THEN "SetupSuccess" ELSE "SetupError"
         /\ r.m.err = (~success \/ setup.m.err)
         /\ r.cmd = << >>
         /\ ~r.quit

====
